---- MODULE Spec2Model ----
(***************************************************************************)
(* Flashcard generator (src/index.tsx): the reply parser and the session   *)
(* controller (view state machine, countdown timer, card navigation) with  *)
(* the asynchronous generation round-trips that feed it.                   *)
(*                                                                         *)
(* Strings are sequences of one-character strings, so that split, trim and *)
(* join are computed, not assumed.                                         *)
(***************************************************************************)
EXTENDS Integers, Sequences, FiniteSets, Bags, TLC

\* ------------------------------------------------------------------ bounds
\* Longest reply text explored by the parser specification.
MaxLen == 7

\* Most cards in the decks explored by the navigation specification.
MaxCards == 3

\* Most asynchronous operations (file reads, feedback delays, backend calls)
\* pending at once.
MaxTasks == 2

\* Number of pages of the PDF documents the user imports.
MaxPages == 3

\* Longest study session, in minutes, the user asks for among the valid ones.
MaxMinutes == 1

\* ----------------------------------------------------------------- strings
\* The characters replies are built from: a letter, the colon separator,
\* a blank and the line break.
Chars == {"a", ":", " ", "\n"}

\* Characters String.prototype.trim() strips.
WhiteSpace == {" ", "\n"}

\* Every string of length at most n over Chars.
Strings(n) == UNION {[1..k -> Chars] : k \in 0..n}

\* String.prototype.split(sep) for a one-character separator: scans the
\* string left to right, closing a part at each separator; "" gives [""].
RECURSIVE SplitFrom(_, _, _, _)
SplitFrom(s, sep, i, cur) ==
  IF i > Len(s) THEN <<cur>>
  ELSE IF s[i] = sep THEN <<cur>> \o SplitFrom(s, sep, i + 1, <<>>)
  ELSE SplitFrom(s, sep, i + 1, Append(cur, s[i]))

split(s, sep) == SplitFrom(s, sep, 1, <<>>)

\* Array.prototype.join(sep) over strings.
RECURSIVE join(_, _)
join(parts, sep) ==
  IF Len(parts) = 0 THEN <<>>
  ELSE IF Len(parts) = 1 THEN parts[1]
  ELSE parts[1] \o <<sep>> \o join(Tail(parts), sep)

\* String.prototype.trim(): drops leading and trailing white space.
RECURSIVE trimStart(_)
trimStart(s) ==
  IF Len(s) > 0 /\ s[1] \in WhiteSpace THEN trimStart(Tail(s)) ELSE s

RECURSIVE trimEnd(_)
trimEnd(s) ==
  IF Len(s) > 0 /\ s[Len(s)] \in WhiteSpace
    THEN trimEnd(SubSeq(s, 1, Len(s) - 1)) ELSE s

trim(s) == trimEnd(trimStart(s))

\* ------------------------------------------------------------------ parser
\* The value the line mapper returns for a line that yields no card.
NullCard == [term |-> <<>>, definition |-> <<>>]

\* Mutant: the definition keeps only the part up to the second colon.
parseLine_SecondPartOnly(line) ==
  LET parts == split(line, ":") IN
  IF Len(parts) >= 2 /\ trim(parts[1]) # <<>>
    THEN LET term == trim(parts[1])
             definition == trim(parts[2])
         IN IF definition # <<>>
              THEN [term |-> term, definition |-> definition]
              ELSE NullCard
    ELSE NullCard

\* Mutant: the definition is not tested for emptiness.
parseLine_NoDefinitionCheck(line) ==
  LET parts == split(line, ":") IN
  IF Len(parts) >= 2 /\ trim(parts[1]) # <<>>
    THEN [term |-> trim(parts[1]),
          definition |-> trim(join(Tail(parts), ":"))]
    ELSE NullCard

\* The mapper applied to each line of the reply.
parseLine(line) ==
  LET parts == split(line, ":") IN
  IF Len(parts) >= 2 /\ trim(parts[1]) # <<>>
    THEN LET term == trim(parts[1])
             definition == trim(join(Tail(parts), ":"))
         IN IF definition # <<>>
              THEN [term |-> term, definition |-> definition]
              ELSE NullCard
    ELSE NullCard

\* Array.prototype.filter(card => card !== null).
RECURSIVE filterNonNull(_)
filterNonNull(cards) ==
  IF Len(cards) = 0 THEN <<>>
  ELSE IF cards[1] = NullCard THEN filterNonNull(Tail(cards))
  ELSE <<cards[1]>> \o filterNonNull(Tail(cards))

\* responseText.split('\n').map(...).filter(...)
parseCards(responseText) ==
  LET lines == split(responseText, "\n") IN
  filterNonNull([k \in 1..Len(lines) |-> parseLine(lines[k])])

\* currentPdfDoc = null. A document is told from another by the file it was
\* loaded from.
NoDoc == [isNull |-> TRUE, numPages |-> 0, file |-> <<>>]

\* Nothing has been handed to the browser for download.
NoDownload == [made |-> FALSE, content |-> <<>>, fileName |-> <<>>]

\* No value has been raised.
NoRaise == [isError |-> FALSE, message |-> <<>>]

\* No run of the generateFromPdfButton click handler is suspended. Besides
\* the handler's locals a run carries four history fields: each page's
\* outcome, the document that was loaded when the run was started, and the
\* value of currentPdfDoc and the page number each iteration of the page
\* loop called getPage with.
NoJob ==
  [pc |-> "idle", startPage |-> 0, endPage |-> 0, page |-> 0, worker |-> FALSE,
   extractedText |-> <<>>, outcomes |-> <<>>, doc |-> NoDoc, reads |-> <<>>,
   pages |-> <<>>]

\* --------------------------------------------------------------- variables
VARIABLES
  visible,              \* the view containers that do not carry class "hidden"
  activeStudySet,       \* the active deck, or NoSet (null)
  timerInterval,        \* the stored interval handle, or 0 (null)
  intervals,            \* the live countdown intervals, each with its closure's totalSeconds
  currentCardIndex,     \* index of the card on display
  navDisabled,          \* prevCardButton.disabled and nextCardButton.disabled
  flashcardsContainer,  \* the card on display: "empty", or the card "front" up, or
                        \* carrying class "flipped" ("back")
  errorMessage,         \* errorMessage.textContent
  topicInput,           \* topicInput.value
  generateDisabled,     \* generateButton.disabled
  importDisabled,       \* importButton.disabled
  tasks,                \* the asynchronous operations that are suspended at an await
  currentPdfDoc,        \* the loaded PDF document, or NoDoc (null)
  pdfModalHidden,       \* whether pdfOptionsModal carries class "hidden"
  pdfGenerateDisabled,  \* generateFromPdfButton.disabled
  pdfCancelDisabled,    \* cancelPdfButton.disabled
  lastAlert,            \* the text of the last alert() dialog, or ""
  pdfJob,               \* the suspended run of the generateFromPdfButton click handler: the
                        \* await it is at, its locals, and (history) each page's outcome
  startClearedLive,     \* history: the last startTimer call cleared a live interval
  pReply,               \* parser specification: the reply text handed to the parser
  pCards,               \* parser specification: the cards the parser returned
  pDone,                \* parser specification: whether the parser has run
  navStart,             \* navigation specification: the card index it starts from
  navTrace,             \* navigation specification: the handlers run so far, in order
  download,             \* the file handed to the browser for download, or NoDownload
  raised                \* classification specification: the value the backend call
                        \* raises

sessionVars == <<visible, activeStudySet, timerInterval, intervals,
                 currentCardIndex, navDisabled, flashcardsContainer,
                 startClearedLive>>
buttonVars == <<generateDisabled, importDisabled>>
pdfVars == <<currentPdfDoc, pdfModalHidden, pdfGenerateDisabled, pdfCancelDisabled,
             pdfJob, lastAlert>>
parserVars == <<pReply, pCards, pDone, navStart, navTrace, download, raised>>

vars == <<visible, activeStudySet, timerInterval, intervals, currentCardIndex,
          navDisabled, flashcardsContainer, errorMessage, topicInput, generateDisabled,
          importDisabled, tasks, startClearedLive, currentPdfDoc, pdfModalHidden,
          pdfGenerateDisabled, pdfCancelDisabled, pdfJob, lastAlert, pReply,
          pCards, pDone, navStart, navTrace, download, raised>>

\* ---------------------------------------------------- parser specification
ParseInit ==
  /\ pReply \in Strings(MaxLen)
  /\ pCards = <<>>
  /\ pDone = FALSE
  /\ visible = {"GENERATION"}
  /\ activeStudySet = [isNull |-> TRUE, topic |-> <<>>, cards |-> <<>>, sourceContent |-> <<>>]
  /\ timerInterval = 0
  /\ intervals = {}
  /\ currentCardIndex = 0
  /\ navDisabled = FALSE
  /\ flashcardsContainer = "empty"
  /\ errorMessage = ""
  /\ topicInput = <<>>
  /\ generateDisabled = FALSE
  /\ importDisabled = FALSE
  /\ tasks = EmptyBag
  /\ startClearedLive = FALSE
  /\ currentPdfDoc = NoDoc
  /\ pdfModalHidden = TRUE
  /\ pdfGenerateDisabled = FALSE
  /\ pdfCancelDisabled = FALSE
  /\ pdfJob = NoJob
  /\ lastAlert = ""
  /\ navStart = 0
  /\ navTrace = <<>>
  /\ download = NoDownload
  /\ raised = NoRaise

Parse ==
  /\ ~pDone
  /\ pCards' = parseCards(pReply)
  /\ pDone' = TRUE
  /\ UNCHANGED <<pReply, navStart, navTrace, download, raised, sessionVars, buttonVars, errorMessage, topicInput, tasks, pdfVars>>

ParseNext == Parse

SpecParse == ParseInit /\ [][ParseNext]_vars

\* -------------------------------------------------------------- view state
ViewStates == {"GENERATION", "PRE_STUDY", "STUDY", "COMPLETE"}

\* Mutant: the container of `view` is shown without hiding the others.
setViewState_NoHide(view) == visible \cup {view}

\* setViewState(view): every container gets class "hidden", then the
\* container of `view` loses it.
setViewState(view) == (visible \ ViewStates) \cup {view}

\* The view containers in which each control can sit: a control inside a
\* hidden container cannot be operated.
ControlViews ==
  [topicInput |-> {"GENERATION"},
   generateButton |-> {"GENERATION"},
   importButton |-> {"GENERATION"},
   startButton |-> {"PRE_STUDY"},
   stopButton |-> {"STUDY"},
   prevCardButton |-> {"STUDY"},
   nextCardButton |-> {"STUDY"},
   studyAgainButton |-> {"COMPLETE"},
   generateNewButton |-> {"PRE_STUDY", "STUDY"},
   generateNewButton2 |-> {"COMPLETE"}]

\* Whether the user can operate a control.
shown(control) == ControlViews[control] \cap visible # {}

\* activeStudySet = null.
NoSet == [isNull |-> TRUE, topic |-> <<>>, cards |-> <<>>, sourceContent |-> <<>>]

\* The object literal { topic, cards, sourceContent }.
StudySet(topic, cards, sourceContent) ==
  [isNull |-> FALSE, topic |-> topic, cards |-> cards, sourceContent |-> sourceContent]

\* ---------------------------------------------------------------- messages
MsgEnterTopic == "Please enter a topic or some terms and definitions."
MsgGenerating == "Generating flashcards... please wait..."
MsgEmptyResponse == "The AI returned an empty response. Please try a different topic or try again."
MsgParseFailure == "The AI's response couldn't be formatted into flashcards. Try rephrasing your topic or generate again."
MsgUnexpected == "An unexpected error occurred. Please try again."
MsgAuthFailed == "Authentication failed. Please check your API key configuration."
MsgNetwork == "A network error occurred. Please check your internet connection and try again."
MsgQuota == "You have exceeded your API quota. Please try again later."
MsgTimedOut == "The request to the AI timed out. Please check your connection and try again."
MsgInvalidDuration == "Please enter a valid duration between 1 and 60 minutes."
MsgInvalidFileType == "Invalid file type. Please upload a .txt, .docx, or .pdf file."
MsgFileEmpty == "File is empty or could not be read."
MsgReadError == "Error reading file."
MsgUploaded == "uploaded successfully."
MsgDocxFailed == "Could not extract text from the .docx file."

\* ------------------------------------------------------------------- timer
SecondsPerMinute == 60
MinDuration == 1
MaxDuration == 60

\* clearInterval(timerInterval) guarded by if (timerInterval).
clearStoredInterval ==
  IF timerInterval # 0 THEN {iv \in intervals : iv.id # timerInterval} ELSE intervals

\* The handle window.setInterval returns: one no live interval carries.
freshHandle(live) ==
  CHOOSE n \in 1..(Cardinality(live) + 1) :
    /\ \A iv \in live : iv.id # n
    /\ \A m \in 1..(n - 1) : \E iv \in live : iv.id = m

\* Mutant: startTimer that does not clear the interval already running.
startTimer_NoClear(durationMinutes) ==
  LET handle == freshHandle(intervals) IN
  /\ intervals' = intervals \cup
       {[id |-> handle, totalSeconds |-> durationMinutes * SecondsPerMinute]}
  /\ timerInterval' = handle
  /\ startClearedLive' = FALSE

\* startTimer(durationMinutes).
startTimer(durationMinutes) ==
  LET live == clearStoredInterval
      handle == freshHandle(live)
  IN /\ intervals' = live \cup
          {[id |-> handle, totalSeconds |-> durationMinutes * SecondsPerMinute]}
     /\ timerInterval' = handle
     /\ startClearedLive' = (live # intervals)

\* The interval callback of startTimer, fired for the live interval iv.
TimerTick(iv) ==
  /\ iv \in intervals
  /\ LET remaining == iv.totalSeconds - 1
         ticked == (intervals \ {iv}) \cup {[iv EXCEPT !.totalSeconds = remaining]}
     IN IF remaining >= 0
          THEN /\ intervals' = ticked
               /\ UNCHANGED visible
          ELSE /\ intervals' = IF timerInterval # 0
                                 THEN {x \in ticked : x.id # timerInterval}
                                 ELSE ticked
               /\ visible' = setViewState("COMPLETE")
  /\ UNCHANGED <<activeStudySet, timerInterval, currentCardIndex, navDisabled,
                 flashcardsContainer, startClearedLive, errorMessage, topicInput,
                 buttonVars, tasks,
                 pdfVars, parserVars>>

\* ---------------------------------------------------------------- parseInt
DigitChars == <<"0", "1", "2", "3", "4", "5", "6", "7", "8", "9">>

IsDigit(c) == \E i \in 1..Len(DigitChars) : DigitChars[i] = c

DigitValue(c) == (CHOOSE i \in 1..Len(DigitChars) : DigitChars[i] = c) - 1

\* The value of the longest run of digits that starts at position i.
RECURSIVE DigitsFrom(_, _, _)
DigitsFrom(s, i, acc) ==
  IF i <= Len(s) /\ IsDigit(s[i])
    THEN DigitsFrom(s, i + 1, acc * 10 + DigitValue(s[i]))
    ELSE acc

\* parseInt(s, 10): leading white space and one sign are skipped, then the
\* leading digits are read; no digit gives NaN.
parseInt(s) ==
  LET t == trimStart(s)
      signed == Len(t) > 0 /\ t[1] \in {"-", "+"}
      body == IF signed THEN Tail(t) ELSE t
  IN IF Len(body) = 0 \/ ~IsDigit(body[1])
       THEN [nan |-> TRUE, value |-> 0]
       ELSE [nan |-> FALSE,
             value |-> IF signed /\ t[1] = "-"
                         THEN 0 - DigitsFrom(body, 1, 0)
                         ELSE DigitsFrom(body, 1, 0)]

\* ------------------------------------------------------------ card display
\* What showCard(index) leaves in prevCardButton.disabled and
\* nextCardButton.disabled: untouched when there is no such card.
showCard(index) ==
  IF activeStudySet.isNull \/ index + 1 > Len(activeStudySet.cards) \/ index < 0
    THEN navDisabled
    ELSE Len(activeStudySet.cards) <= 1

\* What showCard(index) leaves in flashcardsContainer: the container is
\* emptied, and a card that exists is appended front up.
renderCard(index) ==
  IF activeStudySet.isNull \/ index + 1 > Len(activeStudySet.cards) \/ index < 0
    THEN "empty"
    ELSE "front"

\* Mutant: a click on the card also moves on to the next card.
FlipCard_Advances ==
  /\ "STUDY" \in visible
  /\ flashcardsContainer # "empty"
  /\ flashcardsContainer' = IF flashcardsContainer = "front" THEN "back" ELSE "front"
  /\ currentCardIndex' = (currentCardIndex + 1) % Len(activeStudySet.cards)
  /\ UNCHANGED <<visible, activeStudySet, timerInterval, intervals,
                 navDisabled, startClearedLive, errorMessage, topicInput, buttonVars,
                 tasks, pdfVars, parserVars>>

\* A click on the card on display: cardDiv.classList.toggle('flipped').
FlipCard ==
  /\ "STUDY" \in visible
  /\ flashcardsContainer # "empty"
  /\ flashcardsContainer' = IF flashcardsContainer = "front" THEN "back" ELSE "front"
  /\ UNCHANGED <<visible, activeStudySet, timerInterval, intervals, currentCardIndex,
                 navDisabled, startClearedLive, errorMessage, topicInput, buttonVars,
                 tasks, pdfVars, parserVars>>

\* ---------------------------------------------------------- session events
\* Decimal text of a number below 100, as typed into timerInput.
NumberText(n) ==
  IF n < 10 THEN <<DigitChars[n + 1]>>
  ELSE <<DigitChars[(n \div 10) + 1], DigitChars[(n % 10) + 1]>>

\* Values of timerInput the user presses start with.
TimerInputs ==
  {<<>>, <<"a">>, <<"0">>, <<"6", "1">>, <<"1", "a">>, <<"1", "e", "2">>}
    \cup {NumberText(m) : m \in 1..MaxMinutes}

\* startButton click, with raw the value of timerInput.
StartClick(raw) ==
  /\ shown("startButton")
  /\ LET duration == parseInt(raw) IN
     IF duration.nan \/ duration.value < MinDuration \/ duration.value > MaxDuration
       THEN /\ errorMessage' = MsgInvalidDuration
            /\ UNCHANGED sessionVars
       ELSE /\ errorMessage' = ""
            /\ currentCardIndex' = 0
            /\ navDisabled' = showCard(0)
            /\ flashcardsContainer' = renderCard(0)
            /\ startTimer(duration.value)
            /\ visible' = setViewState("STUDY")
            /\ UNCHANGED activeStudySet
  /\ UNCHANGED <<topicInput, buttonVars, tasks, pdfVars, parserVars>>

\* stopButton click.
StopClick ==
  /\ shown("stopButton")
  /\ IF timerInterval # 0
       THEN /\ intervals' = clearStoredInterval
            /\ timerInterval' = 0
       ELSE UNCHANGED <<intervals, timerInterval>>
  /\ visible' = setViewState("PRE_STUDY")
  /\ UNCHANGED <<activeStudySet, currentCardIndex, navDisabled, flashcardsContainer,
                 startClearedLive,
                 errorMessage, topicInput, buttonVars, tasks, pdfVars, parserVars>>

\* Mutant: the reset discards the deck and leaves the view as it is.
resetToGenerator_KeepsView ==
  /\ shown("generateNewButton") \/ shown("generateNewButton2")
  /\ intervals' = clearStoredInterval
  /\ activeStudySet' = NoSet
  /\ topicInput' = <<>>
  /\ errorMessage' = ""
  /\ currentCardIndex' = 0
  /\ flashcardsContainer' = "empty"
  /\ UNCHANGED <<visible, timerInterval, navDisabled, startClearedLive, buttonVars,
                 tasks, pdfVars, parserVars>>

\* Mutant: the reset does not clear the running interval.
resetToGenerator_KeepsTimer ==
  /\ shown("generateNewButton") \/ shown("generateNewButton2")
  /\ activeStudySet' = NoSet
  /\ topicInput' = <<>>
  /\ errorMessage' = ""
  /\ currentCardIndex' = 0
  /\ flashcardsContainer' = "empty"
  /\ visible' = setViewState("GENERATION")
  /\ UNCHANGED <<intervals, timerInterval, navDisabled, startClearedLive, buttonVars,
                 tasks, pdfVars, parserVars>>

\* resetToGenerator, the click handler of generateNewButton and
\* generateNewButton2.
resetToGenerator ==
  /\ shown("generateNewButton") \/ shown("generateNewButton2")
  /\ intervals' = clearStoredInterval
  /\ activeStudySet' = NoSet
  /\ topicInput' = <<>>
  /\ errorMessage' = ""
  /\ currentCardIndex' = 0
  /\ flashcardsContainer' = "empty"
  /\ visible' = setViewState("GENERATION")
  /\ UNCHANGED <<timerInterval, navDisabled, startClearedLive, buttonVars, tasks,
                 pdfVars, parserVars>>

\* studyAgainButton click.
StudyAgainClick ==
  /\ shown("studyAgainButton")
  /\ visible' = setViewState("PRE_STUDY")
  /\ UNCHANGED <<activeStudySet, timerInterval, intervals, currentCardIndex,
                 navDisabled, flashcardsContainer, startClearedLive, errorMessage,
                 topicInput,
                 buttonVars, tasks, pdfVars, parserVars>>

\* Mutant: next stops at the last card instead of wrapping.
nextCardHandler_NoWrap ==
  IF activeStudySet.isNull \/ Len(activeStudySet.cards) = 0
    THEN UNCHANGED <<currentCardIndex, navDisabled, flashcardsContainer>>
    ELSE LET totalCards == Len(activeStudySet.cards)
             index == IF currentCardIndex + 1 < totalCards
                        THEN currentCardIndex + 1 ELSE currentCardIndex
         IN /\ currentCardIndex' = index
            /\ navDisabled' = showCard(index)
            /\ flashcardsContainer' = renderCard(index)

\* Mutant: previous has no guard for a missing or empty deck.
prevCardHandler_NoGuard ==
  LET totalCards == IF activeStudySet.isNull THEN 0 ELSE Len(activeStudySet.cards)
      index == IF totalCards = 0 THEN currentCardIndex - 1
               ELSE (currentCardIndex - 1 + totalCards) % totalCards
  IN /\ currentCardIndex' = index
     /\ navDisabled' = showCard(index)
     /\ flashcardsContainer' = renderCard(index)

\* The click handler of prevCardButton.
prevCardHandler ==
  IF activeStudySet.isNull \/ Len(activeStudySet.cards) = 0
    THEN UNCHANGED <<currentCardIndex, navDisabled, flashcardsContainer>>
    ELSE LET totalCards == Len(activeStudySet.cards)
             index == (currentCardIndex - 1 + totalCards) % totalCards
         IN /\ currentCardIndex' = index
            /\ navDisabled' = showCard(index)
            /\ flashcardsContainer' = renderCard(index)

\* The click handler of nextCardButton.
nextCardHandler ==
  IF activeStudySet.isNull \/ Len(activeStudySet.cards) = 0
    THEN UNCHANGED <<currentCardIndex, navDisabled, flashcardsContainer>>
    ELSE LET totalCards == Len(activeStudySet.cards)
             index == (currentCardIndex + 1) % totalCards
         IN /\ currentCardIndex' = index
            /\ navDisabled' = showCard(index)
            /\ flashcardsContainer' = renderCard(index)

\* prevCardButton click.
PrevCardClick ==
  /\ shown("prevCardButton")
  /\ ~navDisabled
  /\ prevCardHandler
  /\ UNCHANGED <<visible, activeStudySet, timerInterval, intervals,
                 startClearedLive, errorMessage, topicInput, buttonVars, tasks,
                 pdfVars, parserVars>>

\* nextCardButton click.
NextCardClick ==
  /\ shown("nextCardButton")
  /\ ~navDisabled
  /\ nextCardHandler
  /\ UNCHANGED <<visible, activeStudySet, timerInterval, intervals,
                 startClearedLive, errorMessage, topicInput, buttonVars, tasks,
                 pdfVars, parserVars>>

\* ------------------------------------------------------ more text operators
UpperCase == <<"A", "B", "C", "D", "E", "F", "G", "H", "I", "J", "K", "L", "M",
               "N", "O", "P", "Q", "R", "S", "T", "U", "V", "W", "X", "Y", "Z">>
LowerCase == <<"a", "b", "c", "d", "e", "f", "g", "h", "i", "j", "k", "l", "m",
               "n", "o", "p", "q", "r", "s", "t", "u", "v", "w", "x", "y", "z">>

\* String.prototype.toLowerCase().
toLowerCase(s) ==
  [i \in 1..Len(s) |->
     IF \E k \in 1..Len(UpperCase) : UpperCase[k] = s[i]
       THEN LowerCase[CHOOSE k \in 1..Len(UpperCase) : UpperCase[k] = s[i]]
       ELSE s[i]]

\* String.prototype.includes(sub).
includes(s, sub) ==
  \E i \in 1..(Len(s) - Len(sub) + 1) : SubSeq(s, i, i + Len(sub) - 1) = sub

\* String.prototype.endsWith(suffix).
endsWith(s, suffix) ==
  /\ Len(s) >= Len(suffix)
  /\ SubSeq(s, Len(s) - Len(suffix) + 1, Len(s)) = suffix

\* --------------------------------------------------- generation round-trips
\* Longest topic shown as typed.
TopicLimit == 50

GenericTopic == <<"C", "u", "s", "t", "o", "m", " ", "F", "l", "a", "s", "h", "c", "a", "r", "d", " ", "S", "e", "t">>

\* Mutant: a topic of exactly the limit is collapsed too.
displayTopic_LimitExcluded(topic) ==
  IF Len(topic) >= TopicLimit \/ includes(topic, <<"\n">>)
    THEN GenericTopic
    ELSE topic

\* The display topic generateCardsFromText derives from its topic argument.
displayTopic(topic) ==
  IF Len(topic) > TopicLimit \/ includes(topic, <<"\n">>)
    THEN GenericTopic
    ELSE topic

\* result?.text ?? '' for a backend result with or without a text.
responseTextOf(reply) == IF reply.hasText THEN reply.text ELSE <<>>

\* Mutant: the emptiness test is made on the trimmed reply.
replyOutcome_TrimmedEmptiness(responseText) ==
  IF trim(responseText) = <<>> THEN "empty"
  ELSE IF Len(parseCards(responseText)) > 0 THEN "cards"
  ELSE "unparsed"

\* Mutant: the deck is installed whatever the number of parsed cards.
replyOutcome_NoLengthCheck(responseText) ==
  IF responseText = <<>> THEN "empty" ELSE "cards"

\* The branch generateCardsFromText takes once the backend has answered:
\* !responseText, then parsedCards.length > 0.
replyOutcome(responseText) ==
  IF responseText = <<>> THEN "empty"
  ELSE IF Len(parseCards(responseText)) > 0 THEN "cards"
  ELSE "unparsed"

\* Mutant: the quota test is made before the network test.
userFriendlyMessage_QuotaFirst(error) ==
  IF error.isError
    THEN LET message == toLowerCase(error.message) IN
         IF includes(message, <<"a", "p", "i", " ", "k", "e", "y", " ", "n", "o", "t", " ", "v", "a", "l", "i", "d">>)
           THEN MsgAuthFailed
         ELSE IF includes(message, <<"q", "u", "o", "t", "a">>) THEN MsgQuota
         ELSE IF includes(message, <<"f", "e", "t", "c", "h">>) THEN MsgNetwork
         ELSE IF includes(message, <<"t", "i", "m", "e", "d", " ", "o", "u", "t">>)
           THEN MsgTimedOut
         ELSE MsgUnexpected
    ELSE MsgUnexpected

\* The message the catch block of generateCardsFromText shows for a raised
\* value.
userFriendlyMessage(error) ==
  IF error.isError
    THEN LET message == toLowerCase(error.message) IN
         IF includes(message, <<"a", "p", "i", " ", "k", "e", "y", " ", "n", "o", "t", " ", "v", "a", "l", "i", "d">>)
           THEN MsgAuthFailed
         ELSE IF includes(message, <<"f", "e", "t", "c", "h">>) THEN MsgNetwork
         ELSE IF includes(message, <<"q", "u", "o", "t", "a">>) THEN MsgQuota
         ELSE IF includes(message, <<"t", "i", "m", "e", "d", " ", "o", "u", "t">>)
           THEN MsgTimedOut
         ELSE MsgUnexpected
    ELSE MsgUnexpected

\* A suspended asynchronous operation: its kind ("gen" for the generate
\* button, "txt", "docx" and "pdf" for imports), the await it is suspended
\* at, the arguments it will hand to generateCardsFromText, and the name of
\* the file its reader was given (none for the generate button).
Task(kind, pc, topic, content, file) ==
  [kind |-> kind, pc |-> pc, topic |-> topic, content |-> content, file |-> file]

AwaitingBackend == {t \in BagToSet(tasks) : t.pc = "backend"}

\* generateCardsFromText up to its await of the backend call.
beginGeneration ==
  /\ errorMessage' = MsgGenerating
  /\ generateDisabled' = TRUE
  /\ importDisabled' = TRUE

\* The finally block of generateCardsFromText.
finishGeneration ==
  /\ generateDisabled' = FALSE
  /\ importDisabled' = FALSE

\* The user edits topicInput.
TypeTopic(text) ==
  /\ shown("topicInput")
  /\ topicInput' = text
  /\ UNCHANGED <<sessionVars, errorMessage, buttonVars, tasks, pdfVars, parserVars>>

\* generateButton click.
GenerateClick ==
  /\ shown("generateButton")
  /\ ~generateDisabled
  /\ LET topic == trim(topicInput) IN
     IF topic = <<>>
       THEN /\ errorMessage' = MsgEnterTopic
            /\ UNCHANGED <<buttonVars, tasks>>
       ELSE /\ BagCardinality(tasks) < MaxTasks
            /\ beginGeneration
            /\ tasks' = tasks (+) SetToBag({Task("gen", "backend", topic, topic, <<>>)})
  /\ UNCHANGED <<sessionVars, topicInput, pdfVars, parserVars>>

\* The backend call of task t resolves with reply: the rest of the try block
\* and the finally block of generateCardsFromText.
BackendReply(t, reply) ==
  /\ t \in AwaitingBackend
  /\ LET responseText == responseTextOf(reply)
         outcome == replyOutcome(responseText)
     IN /\ errorMessage' = CASE outcome = "empty" -> MsgEmptyResponse
                             [] outcome = "cards" -> ""
                             [] outcome = "unparsed" -> MsgParseFailure
        /\ IF outcome = "cards"
             THEN /\ activeStudySet' =
                       StudySet(displayTopic(t.topic), parseCards(responseText), t.content)
                  /\ visible' = setViewState("PRE_STUDY")
             ELSE UNCHANGED <<activeStudySet, visible>>
  /\ finishGeneration
  /\ tasks' = tasks (-) SetToBag({t})
  /\ UNCHANGED <<timerInterval, intervals, currentCardIndex, navDisabled,
                 flashcardsContainer, startClearedLive, topicInput, pdfVars,
                 parserVars>>

\* The backend call of task t raises error: the catch block and the finally
\* block of generateCardsFromText.
BackendRaise(t, error) ==
  /\ t \in AwaitingBackend
  /\ errorMessage' = userFriendlyMessage(error)
  /\ finishGeneration
  /\ tasks' = tasks (-) SetToBag({t})
  /\ UNCHANGED <<sessionVars, topicInput, pdfVars, parserVars>>

\* ------------------------------------------------------------- file import
\* The topic handleImport gives a text or document import.
importTopic(fileName) == <<"F", "l", "a", "s", "h", "c", "a", "r", "d", "s", " ", "f", "r", "o", "m", " ">> \o fileName

\* The file kind handleImport recognises from the lower-cased name.
fileKind(fileName) ==
  LET lower == toLowerCase(fileName) IN
  IF endsWith(lower, <<".", "t", "x", "t">>) THEN "txt"
  ELSE IF endsWith(lower, <<".", "d", "o", "c", "x">>) THEN "docx"
  ELSE IF endsWith(lower, <<".", "p", "d", "f">>) THEN "pdf"
  ELSE "invalid"

\* fileInput change with one file chosen: handleImport up to the read it
\* starts (the chooser opens from importButton, in the generation view).
HandleImport(fileName) ==
  /\ shown("importButton")
  /\ ~importDisabled
  /\ IF fileKind(fileName) = "invalid"
       THEN /\ errorMessage' = MsgInvalidFileType
            /\ UNCHANGED tasks
       ELSE /\ BagCardinality(tasks) < MaxTasks
            /\ tasks' = tasks (+)
                 SetToBag({Task(fileKind(fileName), "reading", importTopic(fileName), <<>>,
                                fileName)})
            /\ UNCHANGED errorMessage
  /\ UNCHANGED <<sessionVars, topicInput, buttonVars, pdfVars, parserVars>>

\* reader.onerror of task t.
ReaderError(t) ==
  /\ t \in BagToSet(tasks)
  /\ t.pc = "reading"
  /\ errorMessage' = MsgReadError
  /\ tasks' = tasks (-) SetToBag({t})
  /\ UNCHANGED <<sessionVars, topicInput, buttonVars, pdfVars, parserVars>>

\* reader.onload of task t with the file's text: for a text file up to the
\* feedback delay, for a document up to the extraction it starts.
ReaderLoad(t, text) ==
  /\ t \in BagToSet(tasks)
  /\ t.pc = "reading"
  /\ t.kind \in {"txt", "docx"}
  /\ IF t.kind = "docx"
       THEN /\ tasks' = (tasks (-) SetToBag({t})) (+)
                 SetToBag({[t EXCEPT !.pc = "extracting"]})
            /\ UNCHANGED errorMessage
       ELSE IF text = <<>>
         THEN /\ errorMessage' = MsgFileEmpty
              /\ tasks' = tasks (-) SetToBag({t})
         ELSE /\ errorMessage' = MsgUploaded
              /\ tasks' = (tasks (-) SetToBag({t})) (+)
                   SetToBag({[t EXCEPT !.pc = "feedback", !.content = text]})
  /\ UNCHANGED <<sessionVars, topicInput, buttonVars, pdfVars, parserVars>>

\* mammoth.extractRawText of task t resolves with the document's text.
ExtractDone(t, text) ==
  /\ t \in BagToSet(tasks)
  /\ t.pc = "extracting"
  /\ IF text = <<>>
       THEN /\ errorMessage' = MsgFileEmpty
            /\ tasks' = tasks (-) SetToBag({t})
       ELSE /\ errorMessage' = MsgUploaded
            /\ tasks' = (tasks (-) SetToBag({t})) (+)
                 SetToBag({[t EXCEPT !.pc = "feedback", !.content = text]})
  /\ UNCHANGED <<sessionVars, topicInput, buttonVars, pdfVars, parserVars>>

\* mammoth.extractRawText of task t rejects.
ExtractFail(t) ==
  /\ t \in BagToSet(tasks)
  /\ t.pc = "extracting"
  /\ errorMessage' = MsgDocxFailed
  /\ tasks' = tasks (-) SetToBag({t})
  /\ UNCHANGED <<sessionVars, topicInput, buttonVars, pdfVars, parserVars>>

\* The feedback delay of task t elapses: generateCardsFromText is called
\* and runs up to its await of the backend call.
FeedbackDone(t) ==
  /\ t \in BagToSet(tasks)
  /\ t.pc = "feedback"
  /\ t.kind \in {"txt", "docx"}
  /\ beginGeneration
  /\ tasks' = (tasks (-) SetToBag({t})) (+) SetToBag({[t EXCEPT !.pc = "backend"]})
  /\ UNCHANGED <<sessionVars, topicInput, pdfVars, parserVars>>

\* ------------------------------------------------------------ specification
\* What the user types as a topic.
TopicTexts == {<<" ", "a">>}

\* Names of the files the user imports.
FileNames == {<<"a", ".", "t", "x", "t">>, <<"a", ".", "e", "x", "e">>}

\* Texts a file read or a document extraction yields.
FileTexts == {<<>>, <<"a">>}

\* Results the backend call resolves with.
BackendReplies ==
  {[hasText |-> FALSE, text |-> <<>>]} \cup
  {[hasText |-> TRUE, text |-> x] : x \in
     {<<>>, <<" ">>, <<"a", ":">>, <<"a", ":", "a">>,
      <<"a", ":", "a", "\n", "a", ":", " ", "a", ":", "a">>}}

\* Values the backend call raises.
BackendErrors ==
  {[isError |-> TRUE, message |-> <<"A", "P", "I", " ", "k", "e", "y", " ", "n", "o", "t", " ", "v", "a", "l", "i", "d">>],
   [isError |-> FALSE, message |-> <<>>]}

\* The state once the module has run: setViewState('GENERATION').
Init ==
  /\ visible = {"GENERATION"}
  /\ activeStudySet = NoSet
  /\ timerInterval = 0
  /\ intervals = {}
  /\ currentCardIndex = 0
  /\ navDisabled = FALSE
  /\ flashcardsContainer = "empty"
  /\ errorMessage = ""
  /\ topicInput = <<>>
  /\ generateDisabled = FALSE
  /\ importDisabled = FALSE
  /\ tasks = EmptyBag
  /\ startClearedLive = FALSE
  /\ currentPdfDoc = NoDoc
  /\ pdfModalHidden = TRUE
  /\ pdfGenerateDisabled = FALSE
  /\ pdfCancelDisabled = FALSE
  /\ pdfJob = NoJob
  /\ lastAlert = ""
  /\ navStart = 0
  /\ navTrace = <<>>
  /\ download = NoDownload
  /\ raised = NoRaise
  /\ pReply = <<>>
  /\ pCards = <<>>
  /\ pDone = TRUE

Next ==
  \/ \E text \in TopicTexts : TypeTopic(text)
  \/ GenerateClick
  \/ \E fileName \in FileNames : HandleImport(fileName)
  \/ \E t \in BagToSet(tasks) : ReaderError(t)
  \/ \E t \in BagToSet(tasks), text \in FileTexts : ReaderLoad(t, text)
  \/ \E t \in BagToSet(tasks) : FeedbackDone(t)
  \/ \E t \in BagToSet(tasks), reply \in BackendReplies : BackendReply(t, reply)
  \/ \E t \in BagToSet(tasks), error \in BackendErrors : BackendRaise(t, error)
  \/ \E raw \in TimerInputs : StartClick(raw)
  \/ StopClick
  \/ resetToGenerator
  \/ StudyAgainClick
  \/ PrevCardClick
  \/ NextCardClick
  \/ \E iv \in intervals : TimerTick(iv)

Spec == Init /\ [][Next]_vars

\* -------------------------------------------------------------- PDF import
MsgProcessingFile == "Processing file..."
MsgPdfLoadFailed == "Could not load the PDF file. It may be corrupted or protected."
MsgSelectRange == "Please select the page range to generate flashcards from."
MsgInvalidRange == "Invalid page range. Please enter a valid start and end page within the document's limits."
MsgOcrInit == "Initializing OCR engine..."
MsgOcrFailed == "Could not initialize OCR engine. Please try again."
MsgProcessingPage == "Processing page..."
MsgNoText == "Could not extract any text from the selected PDF pages. If it is a scanned document, please try again with the OCR option enabled."

\* reader.onload of the PDF import t: up to the await of the loading task.
PdfReaderLoad(t) ==
  /\ t \in BagToSet(tasks)
  /\ t.pc = "reading"
  /\ t.kind = "pdf"
  /\ errorMessage' = MsgProcessingFile
  /\ tasks' = (tasks (-) SetToBag({t})) (+) SetToBag({[t EXCEPT !.pc = "loading"]})
  /\ UNCHANGED <<sessionVars, topicInput, buttonVars, pdfVars, parserVars>>

\* The loading task of the PDF import t resolves with a document of
\* numPages pages: up to the feedback delay.
PdfLoaded(t, numPages) ==
  /\ t \in BagToSet(tasks)
  /\ t.pc = "loading"
  /\ currentPdfDoc' = [isNull |-> FALSE, numPages |-> numPages, file |-> t.file]
  /\ errorMessage' = MsgUploaded
  /\ tasks' = (tasks (-) SetToBag({t})) (+) SetToBag({[t EXCEPT !.pc = "feedback"]})
  /\ UNCHANGED <<sessionVars, topicInput, buttonVars, pdfModalHidden,
                 pdfGenerateDisabled, pdfCancelDisabled, pdfJob, lastAlert, parserVars>>

\* The loading task of the PDF import t rejects: the catch block.
PdfLoadFailed(t) ==
  /\ t \in BagToSet(tasks)
  /\ t.pc = "loading"
  /\ errorMessage' = MsgPdfLoadFailed
  /\ tasks' = tasks (-) SetToBag({t})
  /\ UNCHANGED <<sessionVars, topicInput, buttonVars, pdfVars, parserVars>>

\* The feedback delay of the PDF import t elapses: the page fields are
\* filled from currentPdfDoc and the options modal opens; reading numPages
\* of a null currentPdfDoc throws into the catch block.
PdfFeedbackDone(t) ==
  /\ t \in BagToSet(tasks)
  /\ t.pc = "feedback"
  /\ t.kind = "pdf"
  /\ IF currentPdfDoc.isNull
       THEN /\ errorMessage' = MsgPdfLoadFailed
            /\ UNCHANGED pdfModalHidden
       ELSE /\ errorMessage' = MsgSelectRange
            /\ pdfModalHidden' = FALSE
  /\ tasks' = tasks (-) SetToBag({t})
  /\ UNCHANGED <<sessionVars, topicInput, buttonVars, currentPdfDoc,
                 pdfGenerateDisabled, pdfCancelDisabled, pdfJob, lastAlert, parserVars>>

\* cancelPdfButton click.
CancelPdfClick ==
  /\ ~pdfModalHidden
  /\ ~pdfCancelDisabled
  /\ pdfModalHidden' = TRUE
  /\ currentPdfDoc' = NoDoc
  /\ errorMessage' = ""
  /\ UNCHANGED <<sessionVars, topicInput, buttonVars, tasks, pdfGenerateDisabled,
                 pdfCancelDisabled, pdfJob, lastAlert, parserVars>>

\* Mutant: the end page is not tested against the number of pages.
invalidRange_NoUpperBound(useAllPages, startPage, endPage, numPages) ==
  /\ ~useAllPages
  /\ \/ startPage.nan
     \/ endPage.nan
     \/ startPage.value < 1
     \/ startPage.value > endPage.value

\* The test of the custom page range in the generateFromPdfButton handler.
invalidRange(useAllPages, startPage, endPage, numPages) ==
  /\ ~useAllPages
  /\ \/ startPage.nan
     \/ endPage.nan
     \/ startPage.value < 1
     \/ endPage.value > numPages
     \/ startPage.value > endPage.value

\* The topic the handler gives the deck of a PDF.
pdfTopic(startPage, endPage) ==
  <<"F", "l", "a", "s", "h", "c", "a", "r", "d", "s", " ", "f", "r", "o", "m", " ", "P", "D", "F", " ", "(", "P", "a", "g", "e", "s", " ">> \o NumberText(startPage) \o <<"-">> \o NumberText(endPage) \o <<")">>

\* generateFromPdfButton click, with the state of the modal's fields: the
\* handler up to its first await (OCR initialisation, or the first page).
PdfGenerateClick(useAllPages, startRaw, endRaw, performOcr) ==
  /\ ~pdfModalHidden
  /\ ~pdfGenerateDisabled
  /\ UNCHANGED <<sessionVars, topicInput, buttonVars, tasks, parserVars>>
  /\ IF currentPdfDoc.isNull
       THEN UNCHANGED <<errorMessage, pdfVars>>
       ELSE LET numPages == currentPdfDoc.numPages
                startPage == IF useAllPages THEN [nan |-> FALSE, value |-> 1]
                             ELSE parseInt(startRaw)
                endPage == IF useAllPages THEN [nan |-> FALSE, value |-> numPages]
                           ELSE parseInt(endRaw)
            IN IF invalidRange(useAllPages, startPage, endPage, numPages)
                 THEN /\ lastAlert' = MsgInvalidRange
                      /\ pdfGenerateDisabled' = FALSE
                      /\ pdfCancelDisabled' = FALSE
                      /\ UNCHANGED <<errorMessage, currentPdfDoc, pdfModalHidden, pdfJob>>
                 ELSE /\ pdfGenerateDisabled' = TRUE
                      /\ pdfCancelDisabled' = TRUE
                      /\ pdfModalHidden' = TRUE
                      /\ errorMessage' = IF performOcr THEN MsgOcrInit ELSE MsgProcessingPage
                      /\ pdfJob' = [NoJob EXCEPT
                                      !.pc = IF performOcr THEN "ocrInit" ELSE "page",
                                      !.startPage = startPage.value,
                                      !.endPage = endPage.value,
                                      !.page = startPage.value,
                                      !.doc = currentPdfDoc]
                      /\ UNCHANGED <<currentPdfDoc, lastAlert>>

\* Tesseract.createWorker resolves: the handler goes on to the first page.
OcrInitDone ==
  /\ pdfJob.pc = "ocrInit"
  /\ errorMessage' = MsgProcessingPage
  /\ pdfJob' = [pdfJob EXCEPT !.pc = "page", !.worker = TRUE]
  /\ UNCHANGED <<sessionVars, topicInput, buttonVars, tasks, currentPdfDoc,
                 pdfModalHidden, pdfGenerateDisabled, pdfCancelDisabled, lastAlert,
                 parserVars>>

\* Tesseract.createWorker rejects: the catch block, which returns.
OcrInitFail ==
  /\ pdfJob.pc = "ocrInit"
  /\ errorMessage' = MsgOcrFailed
  /\ currentPdfDoc' = NoDoc
  /\ pdfGenerateDisabled' = FALSE
  /\ pdfCancelDisabled' = FALSE
  /\ pdfJob' = NoJob
  /\ UNCHANGED <<sessionVars, topicInput, buttonVars, tasks, pdfModalHidden,
                 lastAlert, parserVars>>

\* The finally block of the handler for the run job: a worker is terminated
\* first, and the rest of the block runs once the termination has resolved.
pdfFinally(job) ==
  IF job.worker
    THEN /\ pdfJob' = [job EXCEPT !.pc = "terminate"]
         /\ UNCHANGED <<currentPdfDoc, pdfGenerateDisabled, pdfCancelDisabled>>
    ELSE /\ pdfJob' = NoJob
         /\ currentPdfDoc' = NoDoc
         /\ pdfGenerateDisabled' = FALSE
         /\ pdfCancelDisabled' = FALSE

\* Mutant: a page that fails takes the text extracted so far with it.
appendPage_FailureDropsText(job, outcome) ==
  IF outcome.failed THEN <<>>
  ELSE IF job.worker /\ outcome.text = <<>> THEN job.extractedText
  ELSE job.extractedText \o outcome.text \o <<"\n", "\n">>

\* extractedText after one page: a page that fails (or has no 2D context)
\* adds nothing, a recognised page adds its text if it has any, a page read
\* without OCR adds its text; each addition ends with a blank line.
appendPage(job, outcome) ==
  IF outcome.failed THEN job.extractedText
  ELSE IF job.worker /\ outcome.text = <<>> THEN job.extractedText
  ELSE job.extractedText \o outcome.text \o <<"\n", "\n">>

\* Mutant: the loop leaves out the last page of the range.
loopContinues_StopsEarly(job) == job.page + 1 < job.endPage

\* i++ followed by the loop test i <= endPage, for the run job that has just
\* processed page job.page.
loopContinues(job) == job.page < job.endPage

\* One iteration of the page loop ends with outcome (the page's awaits
\* resolved, or one of them rejected); after the last page the handler goes
\* on to the emptiness test and to generateCardsFromText, up to the next
\* await.
PdfPage(outcome) ==
  /\ pdfJob.pc = "page"
  /\ (currentPdfDoc.isNull \/ pdfJob.page > currentPdfDoc.numPages) => outcome.failed
  /\ LET job == [pdfJob EXCEPT !.extractedText = appendPage(pdfJob, outcome),
                               !.outcomes = Append(@, outcome),
                               !.reads = Append(@, currentPdfDoc),
                               !.pages = Append(@, pdfJob.page)]
     IN IF loopContinues(pdfJob)
          THEN /\ pdfJob' = [job EXCEPT !.page = @ + 1]
               /\ errorMessage' = MsgProcessingPage
               /\ UNCHANGED <<buttonVars, currentPdfDoc, pdfGenerateDisabled,
                              pdfCancelDisabled>>
          ELSE IF trim(job.extractedText) = <<>>
            THEN /\ errorMessage' = MsgNoText
                 /\ pdfFinally(job)
                 /\ UNCHANGED buttonVars
            ELSE /\ beginGeneration
                 /\ pdfJob' = [job EXCEPT !.pc = "backend"]
                 /\ UNCHANGED <<currentPdfDoc, pdfGenerateDisabled, pdfCancelDisabled>>
  /\ UNCHANGED <<sessionVars, topicInput, tasks, pdfModalHidden, lastAlert, parserVars>>

\* The backend call made for the PDF resolves with reply: the rest of
\* generateCardsFromText, then the finally block of the handler.
PdfBackendReply(reply) ==
  /\ pdfJob.pc = "backend"
  /\ LET responseText == responseTextOf(reply)
         outcome == replyOutcome(responseText)
     IN /\ errorMessage' = CASE outcome = "empty" -> MsgEmptyResponse
                             [] outcome = "cards" -> ""
                             [] outcome = "unparsed" -> MsgParseFailure
        /\ IF outcome = "cards"
             THEN /\ activeStudySet' =
                       StudySet(displayTopic(pdfTopic(pdfJob.startPage, pdfJob.endPage)),
                                parseCards(responseText), pdfJob.extractedText)
                  /\ visible' = setViewState("PRE_STUDY")
             ELSE UNCHANGED <<activeStudySet, visible>>
  /\ finishGeneration
  /\ pdfFinally(pdfJob)
  /\ UNCHANGED <<timerInterval, intervals, currentCardIndex, navDisabled,
                 flashcardsContainer, startClearedLive, topicInput, tasks,
                 pdfModalHidden, lastAlert,
                 parserVars>>

\* The backend call made for the PDF raises error.
PdfBackendRaise(error) ==
  /\ pdfJob.pc = "backend"
  /\ errorMessage' = userFriendlyMessage(error)
  /\ finishGeneration
  /\ pdfFinally(pdfJob)
  /\ UNCHANGED <<sessionVars, topicInput, tasks, pdfModalHidden, lastAlert, parserVars>>

\* tesseractWorker.terminate() resolves: the rest of the finally block.
TerminateDone ==
  /\ pdfJob.pc = "terminate"
  /\ pdfJob' = NoJob
  /\ currentPdfDoc' = NoDoc
  /\ pdfGenerateDisabled' = FALSE
  /\ pdfCancelDisabled' = FALSE
  /\ UNCHANGED <<sessionVars, errorMessage, topicInput, buttonVars, tasks,
                 pdfModalHidden, lastAlert, parserVars>>

\* tesseractWorker.terminate() rejects: the await inside the finally block
\* throws and the statements after it do not run.
TerminateFail ==
  /\ pdfJob.pc = "terminate"
  /\ pdfJob' = NoJob
  /\ UNCHANGED <<sessionVars, errorMessage, topicInput, buttonVars, tasks,
                 currentPdfDoc, pdfModalHidden, pdfGenerateDisabled,
                 pdfCancelDisabled, lastAlert, parserVars>>

\* ------------------------------------------------------------------ export
MsgNoCards == "There are no flashcards to export."

\* Mutant: the export writes the definition before the term.
exportContent_DefinitionFirst(cards) ==
  join([k \in 1..Len(cards) |-> cards[k].definition \o <<":", " ">> \o cards[k].term],
       "\n")

\* Mutant: every line of the export, the last included, ends with a line
\* break.
exportContent_TrailingNewline(cards) ==
  join([k \in 1..Len(cards) |-> cards[k].term \o <<":", " ">> \o cards[k].definition],
       "\n") \o <<"\n">>

\* cards.map(card => `${card.term}: ${card.definition}`).join('\n').
exportContent(cards) ==
  join([k \in 1..Len(cards) |-> cards[k].term \o <<":", " ">> \o cards[k].definition],
       "\n")

\* topic.replace(/[^a-z0-9]/gi, '_').toLowerCase() + '.txt'.
exportFileName(topic) ==
  toLowerCase([i \in 1..Len(topic) |->
                 IF \/ IsDigit(topic[i])
                    \/ \E k \in 1..Len(LowerCase) : topic[i] \in {LowerCase[k], UpperCase[k]}
                   THEN topic[i] ELSE "_"])
    \o <<".", "t", "x", "t">>

\* handleExport, the click handler of exportButton: what it shows and what
\* it hands to the browser.
handleExport ==
  IF activeStudySet.isNull \/ Len(activeStudySet.cards) = 0
    THEN /\ errorMessage' = MsgNoCards
         /\ UNCHANGED download
    ELSE /\ download' = [made |-> TRUE,
                         content |-> exportContent(activeStudySet.cards),
                         fileName |-> exportFileName(activeStudySet.topic)]
         /\ UNCHANGED errorMessage

\* ------------------------------------------------ navigation specification
\* The two navigation handlers applied, in any order, to an active deck of
\* up to MaxCards cards, to an empty deck and to no deck at all, from every
\* card index the deck has.
NavCards(n) ==
  [k \in 1..n |-> [term |-> <<"t">> \o NumberText(k), definition |-> <<"d">> \o NumberText(k)]]

NavDecks == {NoSet} \cup {StudySet(<<"a">>, NavCards(n), <<"a">>) : n \in 0..MaxCards}

NavInit ==
  /\ activeStudySet \in NavDecks
  /\ currentCardIndex \in 0..(IF Len(activeStudySet.cards) = 0
                               THEN 0 ELSE Len(activeStudySet.cards) - 1)
  /\ navStart = currentCardIndex
  /\ navTrace = <<>>
  /\ navDisabled = (Len(activeStudySet.cards) <= 1)
  /\ flashcardsContainer = IF Len(activeStudySet.cards) = 0 THEN "empty" ELSE "front"
  /\ visible = {"STUDY"}
  /\ timerInterval = 0
  /\ intervals = {}
  /\ errorMessage = ""
  /\ topicInput = <<>>
  /\ generateDisabled = FALSE
  /\ importDisabled = FALSE
  /\ tasks = EmptyBag
  /\ startClearedLive = FALSE
  /\ currentPdfDoc = NoDoc
  /\ pdfModalHidden = TRUE
  /\ pdfGenerateDisabled = FALSE
  /\ pdfCancelDisabled = FALSE
  /\ pdfJob = NoJob
  /\ lastAlert = ""
  /\ pReply = <<>>
  /\ pCards = <<>>
  /\ pDone = TRUE
  /\ download = NoDownload
  /\ raised = NoRaise

NavPrev ==
  /\ Len(navTrace) <= MaxCards
  /\ prevCardHandler
  /\ navTrace' = Append(navTrace, "prev")
  /\ UNCHANGED <<visible, activeStudySet, timerInterval, intervals, startClearedLive,
                 errorMessage, topicInput, buttonVars, tasks, pdfVars, pReply, pCards,
                 pDone, navStart, download, raised>>

NavNext ==
  /\ Len(navTrace) <= MaxCards
  /\ nextCardHandler
  /\ navTrace' = Append(navTrace, "next")
  /\ UNCHANGED <<visible, activeStudySet, timerInterval, intervals, startClearedLive,
                 errorMessage, topicInput, buttonVars, tasks, pdfVars, pReply, pCards,
                 pDone, navStart, download, raised>>

NavExport ==
  /\ Len(navTrace) <= MaxCards
  /\ handleExport
  /\ navTrace' = Append(navTrace, "export")
  /\ UNCHANGED <<sessionVars, topicInput, buttonVars, tasks, pdfVars, pReply, pCards,
                 pDone, navStart, raised>>

NavStep == NavPrev \/ NavNext \/ NavExport

SpecNav == NavInit /\ [][NavStep]_vars

\* ------------------------------------------------------- PDF specification
\* Names of the files the user imports here.
PdfFileNames == {<<"a", ".", "p", "d", "f">>, <<"a", ".", "e", "x", "e">>}

\* Values of startPageInput and endPageInput the user presses generate with.
PageInputs == {<<>>} \cup {NumberText(n) : n \in 0..(MaxPages + 1)}

\* How one page ends: an await of the iteration rejects (or the page has no
\* 2D context), or the page yields its text, which may be empty.
PageOutcomes ==
  {[failed |-> TRUE, text |-> <<>>],
   [failed |-> FALSE, text |-> <<>>],
   [failed |-> FALSE, text |-> <<"a">>]}

\* Results the backend call resolves with here.
PdfBackendReplies ==
  {[hasText |-> TRUE, text |-> x] : x \in {<<>>, <<"a", ":", "a">>}}

\* A step of the suspended run of the generateFromPdfButton handler.
PdfJobStep ==
  \/ OcrInitDone
  \/ OcrInitFail
  \/ \E outcome \in PageOutcomes : PdfPage(outcome)
  \/ \E reply \in PdfBackendReplies : PdfBackendReply(reply)
  \/ \E error \in BackendErrors : PdfBackendRaise(error)
  \/ TerminateDone
  \/ TerminateFail

\* The backend call of a generateCardsFromText run that is not part of a
\* PDF run settles.
BackendSettles ==
  \/ \E t \in BagToSet(tasks), reply \in PdfBackendReplies : BackendReply(t, reply)
  \/ \E t \in BagToSet(tasks), error \in BackendErrors : BackendRaise(t, error)

\* Nothing is pending: here the user starts a generation or an import only
\* once the one before has ended.
Quiet == tasks = EmptyBag /\ pdfJob.pc = "idle"

PdfNext ==
  \/ \E text \in TopicTexts : TypeTopic(text)
  \/ Quiet /\ GenerateClick
  \/ BackendSettles
  \/ \E fileName \in PdfFileNames : Quiet /\ HandleImport(fileName)
  \/ \E t \in BagToSet(tasks) : ReaderError(t)
  \/ \E t \in BagToSet(tasks) : PdfReaderLoad(t)
  \/ \E t \in BagToSet(tasks) : PdfLoaded(t, MaxPages)
  \/ \E t \in BagToSet(tasks) : PdfLoadFailed(t)
  \/ \E t \in BagToSet(tasks) : PdfFeedbackDone(t)
  \/ CancelPdfClick
  \/ \E performOcr \in BOOLEAN : PdfGenerateClick(TRUE, <<>>, <<>>, performOcr)
  \/ \E startRaw \in PageInputs, endRaw \in PageInputs, performOcr \in BOOLEAN :
       PdfGenerateClick(FALSE, startRaw, endRaw, performOcr)
  \/ PdfJobStep
  \/ resetToGenerator

SpecPdf == Init /\ [][PdfNext]_vars

\* The collaborators settle every call: a suspended PDF run and a pending
\* backend call are eventually resumed.
FairSpecPdf ==
  /\ Init
  /\ [][PdfNext]_vars
  /\ WF_vars(PdfJobStep)
  /\ WF_vars(BackendSettles)

\* --------------------------------------------- classification specification
\* Pieces of the messages the backend call fails with: the four phrases the
\* catch block looks for, in mixed case, and a piece that is none of them.
MessagePieces ==
  {<<"A", "P", "I", " ", "k", "e", "y", " ", "n", "o", "t", " ", "v", "a", "l", "i", "d">>,
   <<"F", "e", "t", "c", "h">>,
   <<"Q", "U", "O", "T", "A">>,
   <<"t", "i", "m", "e", "d", " ", "O", "u", "t">>,
   <<"x", " ">>}

\* The messages: none, one, two or three pieces in any order.
RaisedMessages ==
  {<<>>} \cup MessagePieces
    \cup {a \o b : a \in MessagePieces, b \in MessagePieces}
    \cup {a \o b \o c : a \in MessagePieces, b \in MessagePieces, c \in MessagePieces}

\* What the backend call raises: an Error with a message, or a value that is
\* not an Error (a string thrown, say).
RaisedValues == {[isError |-> e, message |-> m] : e \in BOOLEAN, m \in RaisedMessages}

\* A generation from the generate button whose backend call raises `raised`.
ClassifyInit ==
  /\ raised \in RaisedValues
  /\ topicInput = <<"a">>
  /\ visible = {"GENERATION"}
  /\ activeStudySet = NoSet
  /\ timerInterval = 0
  /\ intervals = {}
  /\ currentCardIndex = 0
  /\ navDisabled = FALSE
  /\ flashcardsContainer = "empty"
  /\ errorMessage = ""
  /\ generateDisabled = FALSE
  /\ importDisabled = FALSE
  /\ tasks = EmptyBag
  /\ startClearedLive = FALSE
  /\ currentPdfDoc = NoDoc
  /\ pdfModalHidden = TRUE
  /\ pdfGenerateDisabled = FALSE
  /\ pdfCancelDisabled = FALSE
  /\ pdfJob = NoJob
  /\ lastAlert = ""
  /\ navStart = 0
  /\ navTrace = <<>>
  /\ download = NoDownload
  /\ pReply = <<>>
  /\ pCards = <<>>
  /\ pDone = TRUE

ClassifyNext ==
  \/ GenerateClick
  \/ \E t \in BagToSet(tasks) : BackendRaise(t, raised)

SpecClassify == ClassifyInit /\ [][ClassifyNext]_vars

\* exportButton click.
ExportClick ==
  /\ handleExport
  /\ UNCHANGED <<sessionVars, topicInput, buttonVars, tasks, pdfVars, pReply, pCards,
                 pDone, navStart, navTrace, raised>>

\* ------------------------------------------------ round-trip specification
\* A reply is parsed, the deck made of it is installed and exported, and the
\* exported text is parsed in turn.
InstallParsed ==
  /\ pDone
  /\ activeStudySet.isNull
  /\ Len(pCards) > 0
  /\ activeStudySet' = StudySet(<<"a">>, pCards, pReply)
  /\ visible' = setViewState("PRE_STUDY")
  /\ UNCHANGED <<timerInterval, intervals, currentCardIndex, navDisabled,
                 flashcardsContainer, startClearedLive, errorMessage, topicInput,
                 buttonVars, tasks, pdfVars, parserVars>>

ParseExported ==
  /\ download.made
  /\ pReply' = download.content
  /\ pCards' = parseCards(download.content)
  /\ UNCHANGED <<pDone, navStart, navTrace, download, raised, sessionVars, buttonVars,
                 errorMessage, topicInput, tasks, pdfVars>>

RoundTripNext ==
  \/ Parse
  \/ InstallParsed
  \/ ~activeStudySet.isNull /\ ExportClick
  \/ ParseExported

SpecRoundTrip == ParseInit /\ [][RoundTripNext]_vars

\* ---------------------------------------------------- session specification
\* A study session on a deck of one to MaxCards cards, from the PRE_STUDY
\* view a generation has left: every handler of the session, and the
\* generations that follow a reset.
SessionInit ==
  /\ activeStudySet \in {StudySet(<<"a">>, NavCards(n), <<"a">>) : n \in 1..MaxCards}
  /\ visible = {"PRE_STUDY"}
  /\ currentCardIndex = 0
  /\ navDisabled = FALSE
  /\ flashcardsContainer = "empty"
  /\ timerInterval = 0
  /\ intervals = {}
  /\ errorMessage = ""
  /\ topicInput = <<>>
  /\ generateDisabled = FALSE
  /\ importDisabled = FALSE
  /\ tasks = EmptyBag
  /\ startClearedLive = FALSE
  /\ currentPdfDoc = NoDoc
  /\ pdfModalHidden = TRUE
  /\ pdfGenerateDisabled = FALSE
  /\ pdfCancelDisabled = FALSE
  /\ pdfJob = NoJob
  /\ lastAlert = ""
  /\ navStart = 0
  /\ navTrace = <<>>
  /\ download = NoDownload
  /\ raised = NoRaise
  /\ pReply = <<>>
  /\ pCards = <<>>
  /\ pDone = TRUE

SessionNext ==
  \/ \E raw \in TimerInputs : StartClick(raw)
  \/ StopClick
  \/ \E iv \in intervals : TimerTick(iv)
  \/ StudyAgainClick
  \/ PrevCardClick
  \/ NextCardClick
  \/ FlipCard
  \/ ExportClick
  \/ resetToGenerator
  \/ \E text \in TopicTexts : TypeTopic(text)
  \/ GenerateClick
  \/ \E t \in BagToSet(tasks), reply \in PdfBackendReplies : BackendReply(t, reply)

SpecSession == SessionInit /\ [][SessionNext]_vars

\* ------------------------------------------- overlapping PDF imports
\* PDF imports with nothing to keep the user from choosing a further file
\* while a PDF run is in its page loop: importButton is disabled only from
\* generateCardsFromText on. The runs here are made without OCR.
OverlapFileNames == {<<"a", ".", "p", "d", "f">>, <<"b", ".", "p", "d", "f">>}

OverlapNext ==
  \/ \E fileName \in OverlapFileNames : HandleImport(fileName)
  \/ \E t \in BagToSet(tasks) : PdfReaderLoad(t)
  \/ \E t \in BagToSet(tasks) : PdfLoaded(t, MaxPages)
  \/ \E t \in BagToSet(tasks) : PdfFeedbackDone(t)
  \/ CancelPdfClick
  \/ PdfGenerateClick(TRUE, <<>>, <<>>, FALSE)
  \/ \E outcome \in PageOutcomes : PdfPage(outcome)
  \/ \E reply \in PdfBackendReplies : PdfBackendReply(reply)
  \/ resetToGenerator

SpecOverlap == Init /\ [][OverlapNext]_vars

\* ----------------------------------------------------- topic specification
\* Generations and text imports, one at a time, with topics and file names
\* on both sides of the topic limit.
Repeat(c, n) == [i \in 1..n |-> c]

\* What the user types as a topic here: a short topic, one of exactly the
\* limit, one above it, and two lines.
LongTopicTexts ==
  {<<" ", "a">>, Repeat("a", TopicLimit), Repeat("a", TopicLimit + 1),
   <<"a", "\n", "a">>}

\* Names of the text files the user imports here: a short one, and one that
\* makes the import's topic one character longer than the limit.
LongFileNames ==
  {<<"a", ".", "t", "x", "t">>,
   Repeat("a", TopicLimit + 1 - Len(importTopic(<<".", "t", "x", "t">>))) \o <<".", "t", "x", "t">>}

\* Results the backend call resolves with here.
TopicBackendReplies ==
  {[hasText |-> TRUE, text |-> x] : x \in {<<"a", ":">>, <<"a", ":", "a">>}}

TopicNext ==
  \/ \E text \in LongTopicTexts : TypeTopic(text)
  \/ Quiet /\ GenerateClick
  \/ \E fileName \in LongFileNames : Quiet /\ HandleImport(fileName)
  \/ \E t \in BagToSet(tasks), text \in FileTexts : ReaderLoad(t, text)
  \/ \E t \in BagToSet(tasks) : FeedbackDone(t)
  \/ \E t \in BagToSet(tasks), reply \in TopicBackendReplies : BackendReply(t, reply)
  \/ \E t \in BagToSet(tasks), error \in BackendErrors : BackendRaise(t, error)
  \/ resetToGenerator

SpecTopic == Init /\ [][TopicNext]_vars

\* ------------------------------------------------ reference text operators
\* Positions of the line breaks of s, and its lines counted by position
\* (used to state the parser's contract independently of split).
NewlinePositions(s) == {i \in 1..Len(s) : s[i] = "\n"}

LineCount(s) == Cardinality(NewlinePositions(s)) + 1

\* Position of the k-th line break of s.
NthNewline(s, k) ==
  CHOOSE i \in NewlinePositions(s) :
    Cardinality({j \in NewlinePositions(s) : j < i}) = k - 1

LineStart(s, k) == IF k = 1 THEN 1 ELSE NthNewline(s, k - 1) + 1

LineEnd(s, k) == IF k = LineCount(s) THEN Len(s) ELSE NthNewline(s, k) - 1

NthLine(s, k) == SubSeq(s, LineStart(s, k), LineEnd(s, k))

\* s without its k-th line (and without the line break that joined it).
RemoveLine(s, k) ==
  IF LineCount(s) = 1 THEN <<>>
  ELSE IF k = 1 THEN SubSeq(s, LineEnd(s, 1) + 2, Len(s))
  ELSE SubSeq(s, 1, LineStart(s, k) - 2) \o SubSeq(s, LineEnd(s, k) + 1, Len(s))

HasColon(line) == \E i \in 1..Len(line) : line[i] = ":"

FirstColon(line) ==
  CHOOSE i \in 1..Len(line) :
    line[i] = ":" /\ \A j \in 1..(i - 1) : line[j] # ":"

BeforeFirstColon(line) == SubSeq(line, 1, FirstColon(line) - 1)

AfterFirstColon(line) == SubSeq(line, FirstColon(line) + 1, Len(line))

\* A "Term: Definition" line: a colon with text on both sides of the first.
WellFormedLine(line) ==
  /\ HasColon(line)
  /\ trim(BeforeFirstColon(line)) # <<>>
  /\ trim(AfterFirstColon(line)) # <<>>

WellFormedReply(s) == \A k \in 1..LineCount(s) : WellFormedLine(NthLine(s, k))

\* ------------------------------------------------------------------ claims
\* C1: for a reply made only of well-formed "Term: Definition" lines the
\* parser returns one card per line, in line order, whose term is the
\* trimmed text before the line's first colon and whose definition is the
\* trimmed text after it (later colons stay in the definition; lines with
\* equal terms each give a card).
C1_WellFormedReplyParsesLineByLine ==
  (pDone /\ WellFormedReply(pReply)) =>
    /\ Len(pCards) = LineCount(pReply)
    /\ \A k \in 1..LineCount(pReply) :
         /\ pCards[k].term = trim(BeforeFirstColon(NthLine(pReply, k)))
         /\ pCards[k].definition = trim(AfterFirstColon(NthLine(pReply, k)))

\* C1 witness: a parsed well-formed reply of two lines with the same term,
\* one of them with a second colon that ends up inside the definition.
C1_Witness ==
  /\ pDone
  /\ WellFormedReply(pReply)
  /\ LineCount(pReply) = 2
  /\ Len(pCards) = 2
  /\ pCards[1].term = pCards[2].term
  /\ \E i \in 1..Len(pCards[1].definition) : pCards[1].definition[i] = ":"

\* C2: a line with no colon, or with nothing but white space before or after
\* its first colon, yields no card, and the cards of the reply are those of
\* the reply without that line.
C2_MalformedLineIsDropped ==
  pDone =>
    /\ Len(pCards) =
         Cardinality({k \in 1..LineCount(pReply) : WellFormedLine(NthLine(pReply, k))})
    /\ \A k \in 1..LineCount(pReply) :
         ~WellFormedLine(NthLine(pReply, k)) =>
           pCards = parseCards(RemoveLine(pReply, k))

\* C2 witness: a parsed reply whose first line has a term but an empty
\* definition and whose second line is well formed.
C2_Witness ==
  /\ pDone
  /\ LineCount(pReply) = 2
  /\ HasColon(NthLine(pReply, 1))
  /\ trim(BeforeFirstColon(NthLine(pReply, 1))) # <<>>
  /\ trim(AfterFirstColon(NthLine(pReply, 1))) = <<>>
  /\ WellFormedLine(NthLine(pReply, 2))
  /\ Len(pCards) = 1

\* Number of well-formed lines of a reply text.
WellFormedLines(s) ==
  Cardinality({k \in 1..LineCount(s) : WellFormedLine(NthLine(s, k))})

\* The backend replies without a text or with an empty text, those that are
\* only white space, and those in which the parser finds no card.
EmptyReplies == {r \in BackendReplies : responseTextOf(r) = <<>>}

BlankReplies == {r \in BackendReplies : trim(responseTextOf(r)) = <<>>}

CardlessReplies == {r \in BackendReplies : WellFormedLines(responseTextOf(r)) = 0}

\* C3 as stated: a backend reply that is empty or only white space reports
\* the empty-reply failure and leaves the active StudySet as it was.
C3_BlankReplyReportsEmptyReply ==
  [][tasks' # tasks =>
       \A t \in AwaitingBackend :
         tasks' = tasks (-) SetToBag({t}) =>
           \A reply \in BlankReplies :
             BackendReply(t, reply) =>
               (errorMessage' = MsgEmptyResponse /\ activeStudySet' = activeStudySet)]_vars

\* C3 amended: a backend reply with no text or an empty text reports the
\* empty-reply failure; a reply that is not empty but only white space
\* reports the parse failure; both leave the active StudySet as it was.
C3_EmptyReplyReportsEmptyReply ==
  [][tasks' # tasks =>
       \A t \in AwaitingBackend :
         tasks' = tasks (-) SetToBag({t}) =>
           \A reply \in BlankReplies :
             BackendReply(t, reply) =>
               /\ activeStudySet' = activeStudySet
               /\ errorMessage' = IF reply \in EmptyReplies
                                    THEN MsgEmptyResponse
                                    ELSE MsgParseFailure]_vars

\* C3 witness: the empty-reply failure is on display while a deck made by
\* an earlier round-trip is still the active one.
C3_Witness ==
  /\ errorMessage = MsgEmptyResponse
  /\ ~activeStudySet.isNull
  /\ generateDisabled = FALSE

\* C4: a backend reply that has text but no line the parser accepts reports
\* the parse failure, creates no StudySet and leaves the view as it is.
C4_UnparsableReplyReportsParseFailure ==
  [][tasks' # tasks =>
       \A t \in AwaitingBackend :
         tasks' = tasks (-) SetToBag({t}) =>
           \A reply \in CardlessReplies \ EmptyReplies :
             BackendReply(t, reply) =>
               /\ errorMessage' = MsgParseFailure
               /\ errorMessage' # MsgEmptyResponse
               /\ activeStudySet' = activeStudySet
               /\ visible' = visible]_vars

\* C4 witness: the parse failure is on display in the generation view with
\* no deck and no round-trip left.
C4_Witness ==
  /\ errorMessage = MsgParseFailure
  /\ activeStudySet.isNull
  /\ visible = {"GENERATION"}
  /\ tasks = EmptyBag

\* C5 as stated: on every failure path of a round-trip (the backend call
\* raises, the reply is empty, no card is parsed) the active StudySet is
\* unchanged and the view is GENERATION afterwards.
C5_FailureLeavesViewGeneration ==
  [][tasks' # tasks =>
       \A t \in AwaitingBackend :
         (/\ tasks' = tasks (-) SetToBag({t})
          /\ \/ \E error \in BackendErrors : BackendRaise(t, error)
             \/ \E reply \in CardlessReplies : BackendReply(t, reply)) =>
           (activeStudySet' = activeStudySet /\ visible' = {"GENERATION"})]_vars

\* C6: an active StudySet has at least one card, and every card has a term
\* and a definition that are not empty once trimmed.
C6_ActiveDeckIsNonEmpty ==
  ~activeStudySet.isNull =>
    /\ Len(activeStudySet.cards) > 0
    /\ \A k \in 1..Len(activeStudySet.cards) :
         /\ trim(activeStudySet.cards[k].term) # <<>>
         /\ trim(activeStudySet.cards[k].definition) # <<>>

\* C6 witness: an active deck of two cards.
C6_Witness ==
  /\ ~activeStudySet.isNull
  /\ Len(activeStudySet.cards) = 2

\* Number of generateCardsFromText calls suspended at the backend call.
BackendCallsInFlight ==
  BagCardinality([t \in AwaitingBackend |-> CopiesIn(t, tasks)])

\* C7 as stated: no two generation round-trips are in flight at once; in
\* particular no two calls of generateCardsFromText are between the
\* disabling of the controls and their finally block at the same time.
C7_OneRoundTripInFlight == BackendCallsInFlight <= 1

\* C8 as stated: no countdown interval is live while the view is not STUDY.
C8_NoIntervalOutsideStudy == ("STUDY" \notin visible) => intervals = {}

\* C9: at most one countdown interval is live, and it is the one whose
\* handle timerInterval stores.
C9_AtMostOneInterval ==
  /\ Cardinality(intervals) <= 1
  /\ \A iv \in intervals : iv.id = timerInterval

\* C9 witness: a timer was started while another was running; the earlier
\* interval was cleared and only the new one is live.
C9_Witness ==
  /\ startClearedLive
  /\ Cardinality(intervals) = 1
  /\ "STUDY" \in visible

\* C10 as stated: a tick takes one second off the timer, and the tick that
\* brings the remaining seconds to zero shows COMPLETE and clears the
\* interval.
C10_TickReachingZeroCompletes ==
  [][\A iv \in intervals :
       (intervals' # intervals /\ TimerTick(iv)) =>
         IF iv.totalSeconds - 1 = 0
           THEN /\ visible' = {"COMPLETE"}
                /\ \A x \in intervals' : x.id # iv.id
           ELSE [iv EXCEPT !.totalSeconds = iv.totalSeconds - 1] \in intervals']_vars

\* A plain decimal integer: an optional sign and digits, nothing else.
IsDecimalInteger(raw) ==
  LET body == IF Len(raw) > 0 /\ raw[1] \in {"-", "+"} THEN Tail(raw) ELSE raw
  IN Len(body) > 0 /\ \A i \in 1..Len(body) : IsDigit(body[i])

\* The integer a plain decimal integer denotes.
DecimalValue(raw) ==
  IF raw[1] = "-" THEN 0 - DigitsFrom(Tail(raw), 1, 0)
  ELSE IF raw[1] = "+" THEN DigitsFrom(Tail(raw), 1, 0)
  ELSE DigitsFrom(raw, 1, 0)

\* A duration the timer accepts: an integer of minutes from 1 to 60.
IsValidDuration(raw) ==
  IsDecimalInteger(raw) /\ DecimalValue(raw) >= 1 /\ DecimalValue(raw) <= 60

\* C11 as stated: pressing start with a duration that is not an integer from
\* 1 to 60 (0, 61, 100, text that is not a number) shows the validation
\* message, does not show STUDY, starts no timer and leaves the card index
\* and the deck alone; pressing start with an integer from 1 to 60 shows
\* STUDY.
C11_InvalidDurationIsRejected ==
  [][visible' # visible \/ errorMessage' # errorMessage =>
       \A raw \in TimerInputs :
         StartClick(raw) =>
           IF IsValidDuration(raw)
             THEN visible' = {"STUDY"}
             ELSE /\ errorMessage' = MsgInvalidDuration
                  /\ "STUDY" \notin visible'
                  /\ intervals' = intervals
                  /\ timerInterval' = timerInterval
                  /\ currentCardIndex' = currentCardIndex
                  /\ activeStudySet' = activeStudySet]_vars

\* C12 as stated: the view changes only along the state table: GENERATION
\* to PRE_STUDY by a successful generation, PRE_STUDY to STUDY by a valid
\* start, STUDY to COMPLETE by the timer's expiry, STUDY to PRE_STUDY by
\* stop, COMPLETE to PRE_STUDY by study-again, and to GENERATION only by the
\* generate-new reset.
C12_ViewFollowsStateTable ==
  [][visible' # visible =>
       \/ /\ visible = {"GENERATION"} /\ visible' = {"PRE_STUDY"}
          /\ \E t \in AwaitingBackend, reply \in BackendReplies : BackendReply(t, reply)
       \/ /\ visible = {"PRE_STUDY"} /\ visible' = {"STUDY"}
          /\ \E raw \in TimerInputs : StartClick(raw)
       \/ /\ visible = {"STUDY"} /\ visible' = {"COMPLETE"}
          /\ \E iv \in intervals : TimerTick(iv)
       \/ /\ visible = {"STUDY"} /\ visible' = {"PRE_STUDY"}
          /\ StopClick
       \/ /\ visible = {"COMPLETE"} /\ visible' = {"PRE_STUDY"}
          /\ StudyAgainClick
       \/ /\ visible' = {"GENERATION"}
          /\ resetToGenerator]_vars

\* C13 as stated: whatever the outcome of a generation round-trip (success,
\* backend failure, empty reply, parse failure, OCR initialisation failure,
\* page or extraction failure, failure while releasing the OCR worker), each
\* control it disabled (generate, import, PDF generate, PDF cancel) is
\* eventually enabled again.
C13_ControlsEventuallyReenabled ==
  /\ generateDisabled ~> ~generateDisabled
  /\ importDisabled ~> ~importDisabled
  /\ pdfGenerateDisabled ~> ~pdfGenerateDisabled
  /\ pdfCancelDisabled ~> ~pdfCancelDisabled

\* Number of entries of the navigation trace that are op.
Count(op) == Cardinality({k \in 1..Len(navTrace) : navTrace[k] = op})

\* C14: on a deck of n >= 2 cards each next moves the index to the following
\* card and each previous to the preceding one, circularly: after any run of
\* the handlers the index is the start plus the nexts minus the previouses,
\* modulo n; so n nexts come back to the start, previous from 0 gives n - 1
\* and next then previous restores the index.
C14_NavigationWrapsCircularly ==
  LET n == Len(activeStudySet.cards) IN
  (~activeStudySet.isNull /\ n >= 2) =>
    /\ currentCardIndex = (navStart + Count("next") + n * Len(navTrace) - Count("prev")) % n
    /\ (Len(navTrace) = n /\ Count("next") = n) => currentCardIndex = navStart
    /\ (navStart = 0 /\ navTrace = <<"prev">>) => currentCardIndex = n - 1
    /\ navTrace = <<"next", "prev">> => currentCardIndex = navStart

\* C14 witness: on a deck of three cards, three nexts from index 0 are back
\* at index 0.
C14_Witness ==
  /\ ~activeStudySet.isNull
  /\ Len(activeStudySet.cards) = 3
  /\ navStart = 0
  /\ navTrace = <<"next", "next", "next">>
  /\ currentCardIndex = 0

\* C15: with no active deck, or a deck of zero or one cards, next and
\* previous leave the card index where it was.
C15_NavigationNoOpOnSmallDeck ==
  (activeStudySet.isNull \/ Len(activeStudySet.cards) <= 1) =>
    currentCardIndex = navStart

\* C15 witness: both handlers have run with no active deck.
C15_Witness ==
  /\ activeStudySet.isNull
  /\ Count("next") >= 1
  /\ Count("prev") >= 1

\* C16: exporting with no deck or an empty deck shows the failure message
\* and hands nothing to the browser; exporting a deck of n >= 1 cards hands
\* over a text of exactly n lines, the k-th being the k-th card's term, a
\* colon, a blank and its definition, with no line break after the last; the
\* deck and the view stay as they were.
C16_ExportWritesOneLinePerCard ==
  [][navTrace' = Append(navTrace, "export") =>
       /\ activeStudySet' = activeStudySet
       /\ visible' = visible
       /\ IF activeStudySet.isNull \/ Len(activeStudySet.cards) = 0
            THEN /\ errorMessage' = MsgNoCards
                 /\ download' = NoDownload
            ELSE LET cards == activeStudySet.cards
                     content == download'.content
                 IN /\ download'.made
                    /\ LineCount(content) = Len(cards)
                    /\ \A k \in 1..Len(cards) :
                         NthLine(content, k) =
                           cards[k].term \o <<":", " ">> \o cards[k].definition
                    /\ content[Len(content)] # "\n"]_vars

\* C16 witness: the three-line export of a deck of three cards.
C16_Witness ==
  /\ download.made
  /\ Len(activeStudySet.cards) = 3
  /\ LineCount(download.content) = 3
  /\ navTrace[Len(navTrace)] = "export"

\* Whether a text has a line break.
HasNewline(text) == \E i \in 1..Len(text) : text[i] = "\n"

\* The backend replies in which the parser finds a card.
CardReplies == {r \in TopicBackendReplies : WellFormedLines(responseTextOf(r)) > 0}

\* C17 as stated: a successful generation whose topic has more than 50
\* characters or a line break shows the generic label as the deck's topic and
\* keeps the topic string as the deck's sourceContent; a topic of at most 50
\* characters on one line is shown as it is.
C17_LongTopicKeptAsSourceContent ==
  [][tasks' # tasks =>
       \A t \in AwaitingBackend, reply \in CardReplies :
         BackendReply(t, reply) =>
           IF Len(t.topic) > 50 \/ HasNewline(t.topic)
             THEN /\ activeStudySet'.topic = GenericTopic
                  /\ activeStudySet'.sourceContent = t.topic
             ELSE activeStudySet'.topic = t.topic]_vars

\* C17 amended: a successful generation whose topic has more than 50
\* characters or a line break shows the generic label as the deck's topic; a
\* topic of at most 50 characters on one line is shown as it is; the deck's
\* sourceContent is the content the generation was made from, which is the
\* topic string for a typed topic and the file's text for an import.
C17_LongTopicShownAsGenericLabel ==
  [][tasks' # tasks =>
       \A t \in AwaitingBackend, reply \in CardReplies :
         BackendReply(t, reply) =>
           /\ activeStudySet'.topic =
                IF Len(t.topic) > 50 \/ HasNewline(t.topic) THEN GenericTopic ELSE t.topic
           /\ activeStudySet'.sourceContent = t.content
           /\ t.kind = "gen" => t.content = t.topic
           /\ t.kind = "txt" => t.content \in FileTexts]_vars

\* C17 witness: a deck shown under the generic label whose sourceContent is
\* the two-line topic the user typed.
C17_Witness ==
  /\ ~activeStudySet.isNull
  /\ activeStudySet.topic = GenericTopic
  /\ HasNewline(activeStudySet.sourceContent)
  /\ visible = {"PRE_STUDY"}

\* C18: after reset-to-generator, from whatever state, there is no active
\* deck, no live timer, the card index is 0, the status message is empty and
\* the view is GENERATION; and no other operation takes an active deck away.
C18_ResetDiscardsTheSession ==
  [][activeStudySet' # activeStudySet \/ visible' # visible =>
       /\ resetToGenerator =>
            /\ activeStudySet'.isNull
            /\ intervals' = {}
            /\ currentCardIndex' = 0
            /\ errorMessage' = ""
            /\ visible' = {"GENERATION"}
       /\ (~activeStudySet.isNull /\ activeStudySet'.isNull) => resetToGenerator]_vars

\* C18 witness: the generation view with no deck after a study session (a
\* timer handle is still stored, its interval is gone).
C18_Witness ==
  /\ visible = {"GENERATION"}
  /\ activeStudySet.isNull
  /\ timerInterval # 0
  /\ intervals = {}
  /\ currentCardIndex = 0
  /\ errorMessage = ""

\* The texts of the pages that did not fail, in page order, each followed by
\* a blank line (a recognised page without text contributes nothing).
RECURSIVE PagesText(_, _)
PagesText(outcomes, ocr) ==
  IF outcomes = <<>> THEN <<>>
  ELSE LET last == outcomes[Len(outcomes)]
           front == SubSeq(outcomes, 1, Len(outcomes) - 1)
       IN IF last.failed \/ (ocr /\ last.text = <<>>)
            THEN PagesText(front, ocr)
            ELSE PagesText(front, ocr) \o last.text \o <<"\n", "\n">>

\* C19: a page whose loading, rendering, recognition or text extraction
\* fails is skipped and nothing else: the pages after it are still processed,
\* the extracted text is the combined text of the pages that did not fail,
\* and when that text is not blank the backend is invoked with it.
C19_FailedPageIsSkipped ==
  LET done == Len(pdfJob.outcomes)
      selected == pdfJob.endPage - pdfJob.startPage + 1
  IN /\ pdfJob.pc = "page" =>
          /\ done = pdfJob.page - pdfJob.startPage
          /\ done < selected
          /\ pdfJob.extractedText = PagesText(pdfJob.outcomes, pdfJob.worker)
     /\ pdfJob.pc = "backend" =>
          /\ done = selected
          /\ pdfJob.extractedText = PagesText(pdfJob.outcomes, pdfJob.worker)
          /\ trim(pdfJob.extractedText) # <<>>
     /\ (pdfJob.pc = "terminate" /\ trim(PagesText(pdfJob.outcomes, pdfJob.worker)) # <<>>) =>
          errorMessage # MsgNoText

\* C19 witness: pages 1 to 3 were selected, page 2 failed, and the backend
\* is being invoked with the text of pages 1 and 3.
C19_Witness ==
  /\ pdfJob.pc = "backend"
  /\ pdfJob.startPage = 1
  /\ pdfJob.endPage = 3
  /\ Len(pdfJob.outcomes) = 3
  /\ pdfJob.outcomes[2].failed
  /\ pdfJob.extractedText = <<"a", "\n", "\n", "a", "\n", "\n">>

\* The file names whose extension is none of .txt, .docx and .pdf.
UnsupportedFileNames ==
  {f \in PdfFileNames :
     \A ext \in {<<".", "t", "x", "t">>, <<".", "d", "o", "c", "x">>, <<".", "p", "d", "f">>} : ~endsWith(toLowerCase(f), ext)}

\* A custom page range that is not two integers first <= last within
\* 1..numPages.
RangeIsInvalid(startRaw, endRaw, numPages) ==
  \/ ~IsDecimalInteger(startRaw)
  \/ ~IsDecimalInteger(endRaw)
  \/ DecimalValue(startRaw) < 1
  \/ DecimalValue(endRaw) > numPages
  \/ DecimalValue(startRaw) > DecimalValue(endRaw)

\* The invalid custom ranges among the field values, by number of pages.
InvalidRanges ==
  [numPages \in 1..MaxPages |->
     {r \in PageInputs \X PageInputs : RangeIsInvalid(r[1], r[2], numPages)}]

\* What a rejected input leaves alone: no operation is started (no file
\* read, no backend call, no page extraction), and the view, the deck, the
\* document and the state of the four controls are as before.
ValidationFrame ==
  /\ tasks' = tasks
  /\ pdfJob' = pdfJob
  /\ visible' = visible
  /\ activeStudySet' = activeStudySet
  /\ currentPdfDoc' = currentPdfDoc
  /\ <<generateDisabled', importDisabled', pdfGenerateDisabled', pdfCancelDisabled'>> =
       <<generateDisabled, importDisabled, pdfGenerateDisabled, pdfCancelDisabled>>

C21_ExactlyOneViewVisible ==
  Cardinality(visible \cap ViewStates) = 1

\* C21 witness: the session has run through to the COMPLETE view, the last
\* of the four containers to be shown.
C21_Witness ==
  /\ visible \cap ViewStates = {"COMPLETE"}
  /\ ~activeStudySet.isNull
  /\ intervals = {}

\* C22 as stated: every page a PDF run reads comes from the document that
\* was loaded when the run was started, and the cleanup of a run clears no
\* document but its own, whatever further import is interleaved with it.
C22_ExtractionUsesItsOwnDocument ==
  [][/\ \A k \in 1..Len(pdfJob'.reads) :
          pdfJob'.reads[k].isNull \/ pdfJob'.reads[k] = pdfJob'.doc
     /\ (pdfJob.pc # "idle" /\ pdfJob' = NoJob /\ currentPdfDoc' = NoDoc) =>
          (currentPdfDoc.isNull \/ currentPdfDoc = pdfJob.doc)]_vars

\* The page numbers startPage, startPage + 1, ... of the first n pages of the
\* range of a run.
FirstPages(job, n) == [k \in 1..n |-> job.startPage + k - 1]

\* The decks the parser makes of the replies of the PDF specification.
ParsedDecks == {parseCards(responseTextOf(reply)) : reply \in PdfBackendReplies} \ {<<>>}

\* C23: within one round-trip the pages of the range are processed in
\* ascending order, each once; the backend is called once, after the last
\* page; and the deck is parsed and the view changed only when a backend call
\* returns, the view showing a deck the parser made of the reply.
C23_StepsRunInOrder ==
  [][/\ pdfJob'.pc = "page" =>
          pdfJob'.pages = FirstPages(pdfJob', pdfJob'.page - pdfJob'.startPage)
     /\ pdfJob'.pc = "backend" =>
          /\ pdfJob'.pages = FirstPages(pdfJob', pdfJob'.endPage - pdfJob'.startPage + 1)
          /\ pdfJob.pc = "page" \/ pdfJob' = pdfJob
     /\ pdfJob.pc = "backend" => pdfJob'.pc \in {"backend", "terminate", "idle"}
     /\ (activeStudySet' # activeStudySet /\ ~activeStudySet'.isNull) =>
          /\ \/ pdfJob.pc = "backend" /\ pdfJob'.pc \in {"terminate", "idle"}
             \/ \E t \in AwaitingBackend : tasks' = tasks (-) SetToBag({t})
          /\ activeStudySet'.cards \in ParsedDecks
     /\ ("GENERATION" \in visible /\ "PRE_STUDY" \in visible') =>
          /\ activeStudySet' # activeStudySet
          /\ ~activeStudySet'.isNull]_vars

\* C23 witness: a run with OCR over all pages of the document has processed
\* them in order, its backend call has returned, the reply has been parsed
\* and the view changed; the worker is still to be released.
C23_Witness ==
  /\ pdfJob.pc = "terminate"
  /\ pdfJob.pages = FirstPages(pdfJob, MaxPages)
  /\ MaxPages > 1
  /\ visible = {"PRE_STUDY"}
  /\ activeStudySet.topic = pdfTopic(1, MaxPages)
  /\ activeStudySet.cards \in ParsedDecks

\* C24: the active deck is changed only by a generation that succeeds, which
\* replaces it, and by the reset, which removes it; a flip, next, previous,
\* start, stop, a timer tick (the one that expires included), study-again and
\* export leave it as it is, and a flip leaves currentCardIndex as it is too.
C24_DeckChangedOnlyByGenerationAndReset ==
  [][/\ activeStudySet' # activeStudySet =>
          \/ resetToGenerator /\ activeStudySet'.isNull
          \/ /\ \E t \in AwaitingBackend : tasks' = tasks (-) SetToBag({t})
             /\ ~activeStudySet'.isNull
     /\ (\/ FlipCard
         \/ NextCardClick
         \/ PrevCardClick
         \/ \E raw \in TimerInputs : StartClick(raw)
         \/ StopClick
         \/ \E iv \in intervals : TimerTick(iv)
         \/ StudyAgainClick
         \/ ExportClick) => activeStudySet' = activeStudySet
     /\ FlipCard => currentCardIndex' = currentCardIndex]_vars

\* C24 witness: in a running session the second card of the deck has been
\* turned over and the deck has been exported.
C24_Witness ==
  /\ visible = {"STUDY"}
  /\ flashcardsContainer = "back"
  /\ currentCardIndex = 1
  /\ download.made
  /\ intervals # {}
  /\ ~activeStudySet.isNull

\* The phrases of the classification in the order of the claim, with the
\* message of each.
ClassPhrases ==
  <<<<"a", "p", "i", " ", "k", "e", "y", " ", "n", "o", "t", " ", "v", "a", "l", "i", "d">>,
    <<"f", "e", "t", "c", "h">>,
    <<"q", "u", "o", "t", "a">>,
    <<"t", "i", "m", "e", "d", " ", "o", "u", "t">>>>

ClassMessages == <<MsgAuthFailed, MsgNetwork, MsgQuota, MsgTimedOut>>

\* The phrases the lower-cased message of error contains, by position in
\* ClassPhrases.
PhrasesIn(error) ==
  {k \in 1..Len(ClassPhrases) : includes(toLowerCase(error.message), ClassPhrases[k])}

\* C25: a failure of the backend call shows the message of the first phrase,
\* in the order "api key not valid", "fetch", "quota", "timed out", that the
\* lower-cased message of the raised error contains, and the generic message
\* when it contains none or when the raised value is not an error object.
C25_FirstMatchingPhraseClassifies ==
  (tasks = EmptyBag /\ errorMessage # "") =>
     IF raised.isError /\ PhrasesIn(raised) # {}
       THEN errorMessage =
              ClassMessages[CHOOSE k \in PhrasesIn(raised) : \A j \in PhrasesIn(raised) : k <= j]
       ELSE errorMessage = MsgUnexpected

\* C25 witness: an error whose message holds "quota" before "fetch" has been
\* reported as a network error.
C25_Witness ==
  /\ tasks = EmptyBag
  /\ raised.isError
  /\ PhrasesIn(raised) = {2, 3}
  /\ SubSeq(raised.message, 1, 5) = <<"Q", "U", "O", "T", "A">>
  /\ errorMessage = MsgNetwork

\* C26 as stated: whenever there is an active deck, currentCardIndex is an
\* index into it.
C26_IndexWithinDeck ==
  ~activeStudySet.isNull =>
     /\ 0 <= currentCardIndex
     /\ currentCardIndex < Len(activeStudySet.cards)

\* C27: whenever the view is PRE_STUDY, STUDY or COMPLETE there is an active
\* deck; without an active deck the view is GENERATION.
C27_DeckExistsOutsideGeneration ==
  /\ visible \cap {"PRE_STUDY", "STUDY", "COMPLETE"} # {} => ~activeStudySet.isNull
  /\ activeStudySet.isNull => visible \cap ViewStates = {"GENERATION"}

\* C27 witness: a deck of two cards is up for study in the PRE_STUDY view
\* after a session on it was stopped.
C27_Witness ==
  /\ visible = {"PRE_STUDY"}
  /\ ~activeStudySet.isNull
  /\ Len(activeStudySet.cards) = 2
  /\ flashcardsContainer = "front"
  /\ intervals = {}

\* C28: for every deck the parser makes of a reply, parsing the text that
\* the export writes for that deck gives the same cards in the same order.
C28_ExportThenParseGivesTheDeck ==
  (download.made /\ pReply = download.content) => pCards = activeStudySet.cards

\* C28 witness: a deck of two cards has gone through the round trip, and the
\* exported text is not the reply the deck was parsed from.
C28_Witness ==
  /\ download.made
  /\ pReply = download.content
  /\ pCards = activeStudySet.cards
  /\ Len(pCards) = 2
  /\ activeStudySet.sourceContent # download.content

====
